---- MODULE Spec2Model ----
(***************************************************************************)
(* Sparse matrix container of Morph1c/PACS-CH2: algebra::Matrix<T, Store>. *)
(* One Matrix object over a caller-owned coordinate map, with the          *)
(* compressed triple (_vec1/_inner = offsets, _vec2/_outer = indices,      *)
(* _values).  Two revisions of the class live in the repository:           *)
(*   build = "include" : src/include/Matrix.hpp, Matrix_row_impl.hpp,      *)
(*                       Matrix_col_impl.hpp  (single-pass compression)    *)
(*   build = "src"     : src/src/Matrix.hpp, row_specilization.hpp,        *)
(*                       src/src/Matrix_col_impl.hpp (lower/upper bound)   *)
(* Vectors are TLA+ sequences; At/Put give the zero-based access of C++.   *)
(* Keys are <<row, col>>, so k[1] is the C++ k[0] and k[2] the C++ k[1].   *)
(***************************************************************************)
EXTENDS Integers, Sequences, FiniteSets, TLC

VARIABLES Store, build, observe, cap, _is_compressed, _entry_value_map, _vec1,
          _vec2, _values, ret, status, M

\* Store            : the StorageOrder template argument, "row" or "col"
\* build            : the revision of the class, "include" or "src"
\* observe          : the caller keeps what each call returns (the test
\*                    drivers print it); ret then holds operation and value
\* cap              : the number of keys up to which the map is followed
\* _is_compressed, _entry_value_map, _vec1, _vec2, _values : the attributes
\* ret              : outcome of the last call, see Ret
\* status           : "ok", "undefined" once a call had undefined behaviour,
\*                    "ill_formed" when the constructor does not compile
\* M                : history variable: the mapping the object holds, kept
\*                    from compress() on while the vectors are not written
\*                    to; EmptyMap after an assignment in compressed mode
vars == <<Store, build, observe, cap, _is_compressed, _entry_value_map, _vec1,
          _vec2, _values, ret, status, M>>

\* ------------------------------------------------------------------ bounds
\* largest row / column index of the generated input mappings
MaxIdx == 2
\* largest number of entries of a generated input mapping
MaxNnz == 2

\* entry values of the generated mappings and of set()
Vals == {-2, 0}
Idx == 0..MaxIdx
Coords == Idx \X Idx

\* ----------------------------------------------------------------- helpers
Abs(v) == IF v < 0 THEN -v ELSE v

Max2(a, b) == IF a < b THEN b ELSE a

\* v[i] of a std::vector, i zero-based
At(s, i) == s[i + 1]

\* v[i] = x of a std::vector, i zero-based and inside the vector
Put(s, i, x) == [s EXCEPT ![i + 1] = x]

\* std::vector::resize(n, fill): keeps the first elements, pads with fill
Resize(s, n, fill) == [i \in 1..n |-> IF i <= Len(s) THEN s[i] ELSE fill]

\* std::vector<T>(n, fill)
Filled(n, fill) == [i \in 1..n |-> fill]

\* the empty std::map
EmptyMap == [k \in {} |-> 0]

\* operator[] that forgets the other entries
MapPut_alone(m, k, v) == [j \in {k} |-> v]

\* std::map::operator[](k) = v : insert or overwrite
MapPut(m, k, v) == [j \in (DOMAIN m) \cup {k} |-> IF j = k THEN v ELSE m[j]]

\* ------------------------------------------------------------- comparators
\* a column comparator that looks at the row first
ColOrderComparator_row_first(a, b) ==
  (a[1] < b[1]) \/ ((a[1] = b[1]) /\ (a[2] < b[2]))

ColOrderComparator(a, b) == (a[2] < b[2]) \/ ((a[2] = b[2]) /\ (a[1] < b[1]))

RowOrderComparator(a, b) == (a[1] < b[1]) \/ ((a[1] = b[1]) /\ (a[2] < b[2]))

\* the comparator the EntryValuesMap type selects for a storage order
Comparator(order, a, b) ==
  IF order = "row" THEN RowOrderComparator(a, b) ELSE ColOrderComparator(a, b)

\* the keys of a std::map in iteration order (begin() .. end())
RECURSIVE Ordered(_, _)
Ordered(order, S) ==
  IF S = {} THEN <<>>
  ELSE LET k == CHOOSE a \in S : \A b \in S \ {a} : Comparator(order, a, b)
       IN  <<k>> \o Ordered(order, S \ {k})

\* _entry_value_map.rbegin()->first, map not empty
RBeginKey(order, m) ==
  LET keys == Ordered(order, DOMAIN m) IN keys[Len(keys)]

\* --------------------------------------------- compression, include revision
\* loop of _compress_row: one step per map entry, in map order
RECURSIVE compress_row_loop(_, _, _, _)
compress_row_loop(keys, m, num_non_zero, t) ==
  IF keys = <<>> THEN t
  ELSE LET k == Head(keys)
       IN  compress_row_loop(Tail(keys), m, num_non_zero + 1,
             [vec1   |-> Put(t.vec1, k[1] + 1, num_non_zero + 1),
              vec2   |-> Put(t.vec2, num_non_zero, k[2]),
              values |-> Put(t.values, num_non_zero, m[k]),
              oob    |-> t.oob])

\* _compress_row with one offset too many: _vec1 of (largest row) + 3 elements
_compress_row_extra_slot(m, t, rb) ==
  LET num_rows      == rb[1] + 3
      num_non_zeros == Cardinality(DOMAIN m)
  IN  compress_row_loop(Ordered("row", DOMAIN m), m, 0,
        [vec1   |-> Resize(t.vec1, num_rows, 0),
         vec2   |-> Resize(t.vec2, num_non_zeros, 0),
         values |-> Resize(t.values, num_non_zeros, 0),
         oob    |-> FALSE])

\* Matrix::_compress_row; t holds the three vectors, rb is the key read
\* through _entry_value_map.rbegin()
_compress_row(m, t, rb) ==
  LET num_rows      == rb[1] + 2
      num_non_zeros == Cardinality(DOMAIN m)
  IN  compress_row_loop(Ordered("row", DOMAIN m), m, 0,
        [vec1   |-> Resize(t.vec1, num_rows, 0),
         vec2   |-> Resize(t.vec2, num_non_zeros, 0),
         values |-> Resize(t.values, num_non_zeros, 0),
         oob    |-> FALSE])

\* loop of _compress_col: one step per map entry, in map order
RECURSIVE compress_col_loop(_, _, _, _)
compress_col_loop(keys, m, num_non_zero, t) ==
  IF keys = <<>> THEN t
  ELSE LET k == Head(keys)
       IN  compress_col_loop(Tail(keys), m, num_non_zero + 1,
             [vec1   |-> Put(t.vec1, k[2] + 1, num_non_zero + 1),
              vec2   |-> Put(t.vec2, num_non_zero, k[1]),
              values |-> Put(t.values, num_non_zero, m[k]),
              oob    |-> t.oob])

\* Matrix::_compress_col
_compress_col(m, t, rb) ==
  LET num_cols      == rb[2] + 2
      num_non_zeros == Cardinality(DOMAIN m)
  IN  compress_col_loop(Ordered("col", DOMAIN m), m, 0,
        [vec1   |-> Resize(t.vec1, num_cols, 0),
         vec2   |-> Resize(t.vec2, num_non_zeros, 0),
         values |-> Resize(t.values, num_non_zeros, 0),
         oob    |-> FALSE])

\* ------------------------------------------------- compression, src revision
\* std::numeric_limits<std::size_t>::max() of the range probes; TLC integers
\* are 32 bit wide, and every index of the model lies below this value
SizeMax == 2147483647

\* std::map::lower_bound(probe) as a zero-based position in the ordered keys:
\* the first key that is not less than the probe
RECURSIVE lower_bound(_, _, _, _)
lower_bound(order, keys, probe, pos) ==
  IF pos >= Len(keys) \/ ~Comparator(order, At(keys, pos), probe) THEN pos
  ELSE lower_bound(order, keys, probe, pos + 1)

\* std::map::upper_bound(probe): the first key that is greater than the probe
RECURSIVE upper_bound(_, _, _, _)
upper_bound(order, keys, probe, pos) ==
  IF pos >= Len(keys) \/ Comparator(order, probe, At(keys, pos)) THEN pos
  ELSE upper_bound(order, keys, probe, pos + 1)

\* for (auto it = low; it != up; ++it): copy the entries keys[it], low <= it < up;
\* sec is the position of the secondary index in the key
RECURSIVE copy_range(_, _, _, _, _, _, _)
copy_range(keys, m, it, up, num_non_zero, t, sec) ==
  IF it >= up THEN t
  ELSE copy_range(keys, m, it + 1, up, num_non_zero + 1,
         [t EXCEPT !.vec2   = Put(@, num_non_zero, At(keys, it)[sec]),
                   !.values = Put(@, num_non_zero, m[At(keys, it)])],
         sec)

\* loop of the lower_bound/upper_bound _compress_row: row < num_rows - 1
RECURSIVE compress_row_src_loop(_, _, _, _, _, _)
compress_row_src_loop(keys, m, row, num_rows, num_non_zero, t) ==
  IF row >= num_rows - 1 THEN t
  ELSE LET low == lower_bound("row", keys, <<row, 0>>, 0)
           up  == upper_bound("row", keys, <<row, SizeMax>>, 0)
           t1  == copy_range(keys, m, low, up, num_non_zero, t, 2)
           nnz == num_non_zero + (up - low)
       IN  compress_row_src_loop(keys, m, row + 1, num_rows, nnz,
             [t1 EXCEPT !.vec1 = Put(@, row + 1, nnz)])

\* the range-bound _compress_row replaced by the single pass over the map
_compress_row_src_single_pass(m, t, rb) == _compress_row(m, t, rb)

\* Matrix::_compress_row of row_specilization.hpp
_compress_row_src(m, t, rb) ==
  LET num_rows      == rb[1] + 2
      num_non_zeros == Cardinality(DOMAIN m)
  IN  compress_row_src_loop(Ordered("row", DOMAIN m), m, 0, num_rows, 0,
        [vec1   |-> Resize(t.vec1, num_rows, 0),
         vec2   |-> Resize(t.vec2, num_non_zeros, 0),
         values |-> Resize(t.values, num_non_zeros, 0),
         oob    |-> FALSE])

\* loop of the lower_bound/upper_bound _compress_col: col < num_cols.  The write
\* _inner[col + 1] of the last round lies one past the end of _inner: it does
\* not change the vector and is recorded in oob.
RECURSIVE compress_col_src_loop(_, _, _, _, _, _)
compress_col_src_loop(keys, m, col, num_cols, num_non_zero, t) ==
  IF col >= num_cols THEN t
  ELSE LET low == lower_bound("col", keys, <<0, col>>, 0)
           up  == upper_bound("col", keys, <<SizeMax, col>>, 0)
           t1  == copy_range(keys, m, low, up, num_non_zero, t, 1)
           nnz == num_non_zero + (up - low)
       IN  compress_col_src_loop(keys, m, col + 1, num_cols, nnz,
             IF col + 1 < Len(t1.vec1)
             THEN [t1 EXCEPT !.vec1 = Put(@, col + 1, nnz)]
             ELSE [t1 EXCEPT !.oob = TRUE])

\* Matrix::_compress_col of src/src/Matrix_col_impl.hpp
_compress_col_src(m, t, rb) ==
  LET num_cols      == rb[2] + 2
      num_non_zeros == Cardinality(DOMAIN m)
  IN  compress_col_src_loop(Ordered("col", DOMAIN m), m, 0, num_cols, 0,
        [vec1   |-> Resize(t.vec1, num_cols, 0),
         vec2   |-> Resize(t.vec2, num_non_zeros, 0),
         values |-> Resize(t.values, num_non_zeros, 0),
         oob    |-> FALSE])

\* ------------------------------------------------------------ decompression
\* inner loop of _uncompress_row: col_idx from _vec1[row_idx] to _vec1[row_idx+1]
RECURSIVE uncompress_row_inner(_, _, _, _, _)
uncompress_row_inner(m, t, row_idx, col_idx, hi) ==
  IF col_idx >= hi THEN m
  ELSE uncompress_row_inner(
         MapPut(m, <<row_idx, At(t.vec2, col_idx)>>, At(t.values, col_idx)),
         t, row_idx, col_idx + 1, hi)

RECURSIVE uncompress_row_outer(_, _, _, _)
uncompress_row_outer(m, t, row_idx, num_rows) ==
  IF row_idx >= num_rows THEN m
  ELSE uncompress_row_outer(
         uncompress_row_inner(m, t, row_idx, At(t.vec1, row_idx),
                              At(t.vec1, row_idx + 1)),
         t, row_idx + 1, num_rows)

\* Matrix::_uncompress_row, _vec1 not empty: the map after the double loop
_uncompress_row(m, t) == uncompress_row_outer(m, t, 0, Len(t.vec1) - 1)

RECURSIVE uncompress_col_inner(_, _, _, _, _)
uncompress_col_inner(m, t, col_idx, row_idx, hi) ==
  IF row_idx >= hi THEN m
  ELSE uncompress_col_inner(
         MapPut(m, <<At(t.vec2, row_idx), col_idx>>, At(t.values, row_idx)),
         t, col_idx, row_idx + 1, hi)

RECURSIVE uncompress_col_outer(_, _, _, _)
uncompress_col_outer(m, t, col_idx, num_cols) ==
  IF col_idx >= num_cols THEN m
  ELSE uncompress_col_outer(
         uncompress_col_inner(m, t, col_idx, At(t.vec1, col_idx),
                              At(t.vec1, col_idx + 1)),
         t, col_idx + 1, num_cols)

\* Matrix::_uncompress_col, _vec1 not empty
_uncompress_col(m, t) == uncompress_col_outer(m, t, 0, Len(t.vec1) - 1)

\* ------------------------------------------------------------------- state
\* the three vectors of the object as one record
Triple == [vec1 |-> _vec1, vec2 |-> _vec2, values |-> _values]

NoTriple == [vec1 |-> <<>>, vec2 |-> <<>>, values |-> <<>>]

\* the input mappings: at most MaxNnz entries, indices in Idx; the empty
\* mapping is the all-zero matrix
InputMaps ==
  UNION {[S -> Vals] : S \in {S \in SUBSET Coords : Cardinality(S) <= MaxNnz}}

\* the last call: the exception it raised and, when the caller observes the
\* call, the operation and the value it returned
Ret(op, val, err) ==
  IF observe THEN [op |-> op, val |-> val, err |-> err]
  ELSE [op |-> "call", val |-> <<>>, err |-> err]

\* Matrix(EntryValuesMap&) over the caller's map m: uncompressed, the three
\* vectors empty
Constructed(m) ==
  /\ _entry_value_map = m
  /\ _is_compressed = FALSE
  /\ _vec1 = <<>>
  /\ _vec2 = <<>>
  /\ _values = <<>>
  /\ ret = Ret("construct", <<>>, "none")
  /\ status = "ok"
  /\ M = m

\* the offsets arrays of s slots over n stored entries: they start with 0,
\* do not decrease and end with n
InputOffsets(n, s) ==
  {o \in [1..(s + 1) -> 0..n] :
     o[1] = 0 /\ o[s + 1] = n /\ \A i \in 1..s : o[i] <= o[i + 1]}

\* the input arrays (vec1, vec2, values): at most MaxNnz entries, indices in
\* Idx, at most MaxIdx + 1 slots
InputTriples ==
  UNION {{[vec1 |-> o, vec2 |-> ix, values |-> v] :
            o \in InputOffsets(n, s), ix \in [1..n -> Idx],
            v \in [1..n -> Vals]} :
           n \in 0..MaxNnz, s \in 1..(MaxIdx + 1)}

\* Matrix(vec1, vec2, values) over the arrays t.  Its mem-initializer
\* _entry_value_map() value-initialises the reference member, so the
\* constructor is ill-formed: a program that instantiates it is rejected by
\* the compiler, and there is no object to call (status "ill_formed").  The
\* other members are given as the mem-initializer list names them.
ConstructedCompressed(t) ==
  /\ _entry_value_map = EmptyMap
  /\ _is_compressed = TRUE
  /\ _vec1 = t.vec1
  /\ _vec2 = t.vec2
  /\ _values = t.values
  /\ ret = Ret("construct", <<>>, "none")
  /\ status = "ill_formed"
  /\ M = EmptyMap

\* a Matrix of either storage order over one of the input mappings, or
\* over input arrays
Init(b) ==
  /\ Store \in {"row", "col"}
  /\ build = b
  /\ observe = FALSE
  /\ cap = MaxNnz
  /\ \/ \E m \in InputMaps : Constructed(m)
     \/ \E t \in InputTriples : ConstructedCompressed(t)

\* a constructor that copies the small example instead of binding to it:
\* the caller's mapping stays as it was passed
entry_value_map_copied == (<<0, 0>> :> 4) @@ (<<1, 2>> :> -17) @@ (<<3, 3>> :> 4)

\* the caller's mapping passed to Matrix(EntryValuesMap& entry_value_map):
\* the attribute _entry_value_map is a reference bound to it, so both names
\* denote one object
entry_value_map == _entry_value_map

\* ----------------------------------------------------------- element access
\* Matrix::_find_uncompressed_element: the stored value, or 0
_find_uncompressed_element(m, row, col) ==
  IF <<row, col>> \in DOMAIN m THEN m[<<row, col>>] ELSE 0

\* the scan "for (idx = lo; idx < hi; ++idx) if (v[idx] == target) return idx":
\* the position found, NotFound when the loop ends, PastEnd when the loop
\* reads v past its end
NotFound == -1

PastEnd == -2

RECURSIVE scan(_, _, _, _)
scan(v, idx, hi, target) ==
  IF idx >= hi THEN NotFound
  ELSE IF idx >= Len(v) THEN PastEnd
  ELSE IF At(v, idx) = target THEN idx
  ELSE scan(v, idx + 1, hi, target)

\* the arguments for which the lookup reads _vec1[p] and _vec1[p + 1] inside it
InRange(t, p) == p + 1 < Len(t.vec1)

\* loop of both _find_compressed_element_row: position of the element
find_pos_row(t, row, col) ==
  scan(t.vec2, At(t.vec1, row), At(t.vec1, row + 1), col)

\* loop of _find_compressed_element_col (const, and non-const of include)
find_pos_col(t, row, col) ==
  scan(t.vec2, At(t.vec1, col), At(t.vec1, col + 1), row)

\* loop of the non-const _find_compressed_element_col of the src revision:
\* "row_idx < _outer[col + 1]"; PastEnd when _outer[col + 1] does not exist
find_pos_col_src(t, row, col) ==
  IF col + 1 >= Len(t.vec2) THEN PastEnd
  ELSE scan(t.vec2, At(t.vec1, col), At(t.vec2, col + 1), row)

\* const T _find_compressed_element_row(row, col) const
_find_compressed_element_row(t, row, col) ==
  LET p == find_pos_row(t, row, col)
  IN  IF p >= 0 THEN At(t.values, p) ELSE 0

\* const T _find_compressed_element_col(row, col) const
_find_compressed_element_col(t, row, col) ==
  LET p == find_pos_col(t, row, col)
  IN  IF p >= 0 THEN At(t.values, p) ELSE 0

\* T operator()(row, col) const, compressed case: dispatch on the order
get_compressed(order, t, row, col) ==
  IF order = "row" THEN _find_compressed_element_row(t, row, col)
  ELSE _find_compressed_element_col(t, row, col)

\* T& operator()(row, col), compressed case: the position in _values the
\* returned reference names, NotFound when std::invalid_argument is thrown
ref_compressed(b, order, t, row, col) ==
  IF order = "row" THEN find_pos_row(t, row, col)
  ELSE IF b = "include" THEN find_pos_col(t, row, col)
  ELSE find_pos_col_src(t, row, col)

\* ------------------------------------------------------------------ multiply
\* res[i] += x on a vector: a write past the end leaves res and sets ub
Acc(r, i, x) ==
  IF i < Len(r.res) THEN [r EXCEPT !.res = Put(@, i, At(@, i) + x)]
  ELSE [r EXCEPT !.ub = TRUE]

\* vec[i] of the argument vector: a read past its end sets ub
Rd(vec, i) == IF i < Len(vec) THEN At(vec, i) ELSE 0

RdUb(vec, i) == i >= Len(vec)

\* "for (const auto& [k, v] : _entry_value_map) res[k[0]] += vec[k[1]] * v"
RECURSIVE mult_entries(_, _, _, _)
mult_entries(keys, m, vec, r) ==
  IF keys = <<>> THEN r
  ELSE LET k  == Head(keys)
           r1 == Acc(r, k[1], Rd(vec, k[2]) * m[k])
       IN  mult_entries(Tail(keys), m, vec,
                        [r1 EXCEPT !.ub = @ \/ RdUb(vec, k[2])])

\* "for (const auto& [k, v] : map) num = std::max(num, k[p] + add)"
RECURSIVE max_key(_, _, _, _)
max_key(keys, p, add, num) ==
  IF keys = <<>> THEN num
  ELSE max_key(Tail(keys), p, add, Max2(num, Head(keys)[p] + add))

\* Matrix::_matrix_vector_uncompressed (include), map not empty:
\* the vector has num_rows elements, num_rows the largest row index
_matrix_vector_uncompressed(order, m, vec) ==
  LET keys     == Ordered(order, DOMAIN m)
      num_rows == IF order = "row" THEN RBeginKey("row", m)[1]
                  ELSE max_key(keys, 1, 0, 0)
  IN  mult_entries(keys, m, vec, [res |-> Filled(num_rows, 0), ub |-> FALSE])

\* Matrix::_uncompressed_mult (src), map not empty: num_rows is not
\* initialised, g is the value it holds; column order takes max(g, k[0])
_uncompressed_mult(order, m, vec, g) ==
  LET keys     == Ordered(order, DOMAIN m)
      num_rows == IF order = "row" THEN RBeginKey("row", m)[1]
                  ELSE max_key(keys, 1, 0, g)
  IN  mult_entries(keys, m, vec,
                   [res |-> Filled(num_rows + 1, 0), ub |-> FALSE])

\* inner loop of _matrix_vector_row: res[row_idx] += vec[_vec2[k]] * _values[k]
RECURSIVE mult_row_inner(_, _, _, _, _, _)
mult_row_inner(t, vec, row_idx, col_idx, hi, r) ==
  IF col_idx >= hi THEN r
  ELSE LET r1 == Acc(r, row_idx,
                     Rd(vec, At(t.vec2, col_idx)) * At(t.values, col_idx))
       IN  mult_row_inner(t, vec, row_idx, col_idx + 1, hi,
             [r1 EXCEPT !.ub = @ \/ RdUb(vec, At(t.vec2, col_idx))])

RECURSIVE mult_row_outer(_, _, _, _)
mult_row_outer(t, vec, row_idx, r) ==
  IF row_idx >= Len(t.vec1) - 1 THEN r
  ELSE mult_row_outer(t, vec, row_idx + 1,
         mult_row_inner(t, vec, row_idx, At(t.vec1, row_idx),
                        At(t.vec1, row_idx + 1), r))

\* _matrix_vector_row with a result of one element less
_matrix_vector_row_short(t, vec) ==
  mult_row_outer(t, vec, 0, [res |-> Filled(Len(t.vec1) - 2, 0), ub |-> FALSE])

\* Matrix::_matrix_vector_row, _vec1 not empty
_matrix_vector_row(t, vec) ==
  mult_row_outer(t, vec, 0, [res |-> Filled(Len(t.vec1) - 1, 0), ub |-> FALSE])

\* *max_element(begin(v), end(v)), v not empty
RECURSIVE max_element(_)
max_element(v) ==
  IF Len(v) = 1 THEN v[1] ELSE Max2(v[1], max_element(Tail(v)))

\* inner loop of _matrix_vector_col: res[_vec2[k]] += vec[col_idx] * _values[k]
RECURSIVE mult_col_inner(_, _, _, _, _, _)
mult_col_inner(t, vec, col_idx, row_idx, hi, r) ==
  IF row_idx >= hi THEN r
  ELSE LET r1 == Acc(r, At(t.vec2, row_idx),
                     Rd(vec, col_idx) * At(t.values, row_idx))
       IN  mult_col_inner(t, vec, col_idx, row_idx + 1, hi,
             [r1 EXCEPT !.ub = @ \/ RdUb(vec, col_idx)])

RECURSIVE mult_col_outer(_, _, _, _)
mult_col_outer(t, vec, col_idx, r) ==
  IF col_idx >= Len(t.vec1) - 1 THEN r
  ELSE mult_col_outer(t, vec, col_idx + 1,
         mult_col_inner(t, vec, col_idx, At(t.vec1, col_idx),
                        At(t.vec1, col_idx + 1), r))

\* Matrix::_matrix_vector_col, _vec1 and _vec2 not empty
_matrix_vector_col(t, vec) ==
  LET num_rows == max_element(t.vec2)
  IN  mult_col_outer(t, vec, 0,
                     [res |-> Filled(num_rows + 1, 0), ub |-> FALSE])

\* --------------------------------------------------------------------- norms
\* the three NormOrder values
NormOrder == {"frob", "one", "max"}

\* a norm result: the value, and ub when the computation left an array.
\* The Frobenius value is the radicand: std::sqrt is applied to it last, and
\* sqrt is strictly monotone, so two results agree iff their radicands do.
RECURSIVE sum_norm(_)
sum_norm(v) == IF v = <<>> THEN 0 ELSE v[1] * v[1] + sum_norm(Tail(v))

\* the values of the map in iteration order
MapValues(order, m) ==
  LET keys == Ordered(order, DOMAIN m) IN [i \in 1..Len(keys) |-> m[keys[i]]]

\* Matrix::_frob_norm_uncompressed: res += std::norm(v) over the map
_frob_norm_uncompressed(order, m) ==
  [res |-> sum_norm(MapValues(order, m)), ub |-> FALSE]

\* Matrix::_frob_norm_compressed: res += std::norm(val) over _values
_frob_norm_compressed(t) == [res |-> sum_norm(t.values), ub |-> FALSE]

\* "for (const auto& [k, v] : map) sum[k[p]] += std::abs(v)"
RECURSIVE abs_entries(_, _, _, _)
abs_entries(keys, m, p, r) ==
  IF keys = <<>> THEN r
  ELSE abs_entries(Tail(keys), m, p, Acc(r, Head(keys)[p], Abs(m[Head(keys)])))

\* the value "return *max_element(begin(sum), end(sum))" of an accumulator
\* record: with an empty accumulator the read is past its end
MaxOfAcc(r) ==
  IF r.res = <<>> THEN [res |-> 0, ub |-> TRUE]
  ELSE [res |-> max_element(r.res), ub |-> r.ub]

\* Matrix::_one_norm_uncompressed, map not empty
_one_norm_uncompressed(order, m) ==
  LET keys     == Ordered(order, DOMAIN m)
      num_cols == IF order = "row" THEN max_key(keys, 2, 1, 0)
                  ELSE RBeginKey("col", m)[2] + 1
  IN  MaxOfAcc(abs_entries(keys, m, 2,
                           [res |-> Filled(num_cols, 0), ub |-> FALSE]))

\* Matrix::_max_norm_uncompressed, map not empty
_max_norm_uncompressed(order, m) ==
  LET keys     == Ordered(order, DOMAIN m)
      num_rows == IF order = "row" THEN RBeginKey("row", m)[1] + 1
                  ELSE max_key(keys, 1, 1, 0)
  IN  MaxOfAcc(abs_entries(keys, m, 1,
                           [res |-> Filled(num_rows, 0), ub |-> FALSE]))

\* "norm_curr += std::abs(_values[k])" for k from idx below hi
RECURSIVE abs_range(_, _, _)
abs_range(values, idx, hi) ==
  IF idx >= hi THEN 0
  ELSE Abs(At(values, idx)) + abs_range(values, idx + 1, hi)

\* the slot loop of _max_norm_compressed_row and _one_norm_compressed_col:
\* res = std::max(res, sum of the slot)
RECURSIVE slot_norm(_, _, _)
slot_norm(t, slot, res) ==
  IF slot >= Len(t.vec1) - 1 THEN res
  ELSE slot_norm(t, slot + 1,
         Max2(res, abs_range(t.values, At(t.vec1, slot), At(t.vec1, slot + 1))))

\* Matrix::_max_norm_compressed_row, _vec1 not empty
_max_norm_compressed_row(t) == [res |-> slot_norm(t, 0, 0), ub |-> FALSE]

\* Matrix::_one_norm_compressed_col, _vec1 not empty
_one_norm_compressed_col(t) == [res |-> slot_norm(t, 0, 0), ub |-> FALSE]

\* "for (idx = 0; idx < _vec2.size(); ++idx) sum[_vec2[idx]] += abs(_values[idx])"
RECURSIVE abs_indices(_, _, _)
abs_indices(t, idx, r) ==
  IF idx >= Len(t.vec2) THEN r
  ELSE abs_indices(t, idx + 1,
                   Acc(r, At(t.vec2, idx), Abs(At(t.values, idx))))

\* Matrix::_one_norm_compressed_row, _vec2 not empty: the accumulator has
\* num_cols elements, num_cols the largest column index
_one_norm_compressed_row(t) ==
  LET num_cols == max_element(t.vec2)
  IN  MaxOfAcc(abs_indices(t, 0, [res |-> Filled(num_cols, 0), ub |-> FALSE]))

\* Matrix::_max_norm_compressed_col, _vec2 not empty
_max_norm_compressed_col(t) ==
  LET num_rows == max_element(t.vec2)
  IN  MaxOfAcc(abs_indices(t, 0, [res |-> Filled(num_rows, 0), ub |-> FALSE]))

\* Matrix::norm<Norm>() of an uncompressed matrix
norm_uncompressed(Norm, order, m) ==
  IF Norm = "frob" THEN _frob_norm_uncompressed(order, m)
  ELSE IF Norm = "one" THEN _one_norm_uncompressed(order, m)
  ELSE _max_norm_uncompressed(order, m)

\* Matrix::norm<Norm>() of a compressed matrix
norm_compressed(Norm, order, t) ==
  IF Norm = "frob" THEN _frob_norm_compressed(t)
  ELSE IF order = "col"
       THEN IF Norm = "one" THEN _one_norm_compressed_col(t)
            ELSE _max_norm_compressed_col(t)
       ELSE IF Norm = "one" THEN _one_norm_compressed_row(t)
            ELSE _max_norm_compressed_row(t)

\* ------------------------------------------------------------------- actions
\* a call that ran into undefined behaviour: the process ends, or goes on
\* with memory the model says nothing about
Undefined ==
  /\ status' = "undefined"
  /\ UNCHANGED <<Store, build, observe, cap, _is_compressed, _entry_value_map,
                 _vec1, _vec2, _values, M, ret>>

\* a const call that writes to the member _values
Returns_clears_values(op, val) ==
  /\ ret' = Ret(op, val, "none")
  /\ _values' = <<>>
  /\ UNCHANGED <<Store, build, observe, cap, _is_compressed, _entry_value_map,
                 _vec1, _vec2, M, status>>

\* a const call returns val and leaves the object as it is; the value is
\* kept in ret when the caller prints it (observe)
Returns(op, val) ==
  /\ ret' = Ret(op, val, "none")
  /\ UNCHANGED <<Store, build, observe, cap, _is_compressed, _entry_value_map,
                 _vec1, _vec2, _values, M, status>>

\* Matrix::compress(): dispatch on the storage order (and the revision)
compress_dispatch(b, order, m, t, rb) ==
  IF order = "row"
  THEN IF b = "include" THEN _compress_row(m, t, rb)
                        ELSE _compress_row_src(m, t, rb)
  ELSE IF b = "include" THEN _compress_col(m, t, rb)
                        ELSE _compress_col_src(m, t, rb)

\* compress() that leaves the entries in the map
Compressed_keeps_map(t) ==
  /\ _is_compressed' = TRUE
  /\ _vec1' = t.vec1
  /\ _vec2' = t.vec2
  /\ _values' = t.values
  /\ M' = _entry_value_map
  /\ ret' = Ret("compress", <<>>, "none")
  /\ UNCHANGED <<Store, build, observe, cap, status, _entry_value_map>>

\* compress() stores the three vectors, sets the flag and clears the map
Compressed(t) ==
  /\ _is_compressed' = TRUE
  /\ _vec1' = t.vec1
  /\ _vec2' = t.vec2
  /\ _values' = t.values
  /\ _entry_value_map' = EmptyMap
  /\ M' = _entry_value_map
  /\ ret' = Ret("compress", <<>>, "none")
  /\ UNCHANGED <<Store, build, observe, cap, status>>

\* Matrix::compress().  On an empty map rbegin() is dereferenced at end().
\* A write past the end of _inner (oob) leaves the vectors as they are, or
\* the behaviour is undefined.  The model compresses maps of at most cap
\* keys.
compress ==
  /\ status = "ok"
  /\ Cardinality(DOMAIN _entry_value_map) <= cap
  /\ IF DOMAIN _entry_value_map # {}
     THEN LET t == compress_dispatch(build, Store, _entry_value_map, Triple,
                                     RBeginKey(Store, _entry_value_map))
          IN  \/ Compressed(t)
              \/ Undefined /\ t.oob
     ELSE Undefined

\* Matrix::uncompress(): dispatch on the storage order
uncompress_dispatch(order, m, t) ==
  IF order = "row" THEN _uncompress_row(m, t) ELSE _uncompress_col(m, t)

\* Matrix::uncompress().  With _vec1 empty, _vec1.size() - 1 wraps around and
\* the loop reads past the vectors.
uncompress ==
  /\ status = "ok"
  /\ IF Len(_vec1) > 0
     THEN /\ _is_compressed' = FALSE
          /\ _entry_value_map' =
               uncompress_dispatch(Store, _entry_value_map, Triple)
          /\ _vec1' = <<>>
          /\ _vec2' = <<>>
          /\ _values' = <<>>
          /\ ret' = Ret("uncompress", <<>>, "none")
          /\ UNCHANGED <<Store, build, observe, cap, status, M>>
     ELSE Undefined

\* the primary index of (row, col) in the storage order
Primary(order, row, col) == IF order = "row" THEN row ELSE col

\* T operator()(row, col) const: the value returned
get_result(order, compressed, m, t, row, col) ==
  IF compressed THEN get_compressed(order, t, row, col)
  ELSE _find_uncompressed_element(m, row, col)

\* T operator()(row, col) const.  Compressed, an index whose slot is not in
\* _vec1 is read past the end of _vec1.
get(row, col) ==
  /\ status = "ok"
  /\ IF _is_compressed /\ ~InRange(Triple, Primary(Store, row, col))
     THEN Undefined
     ELSE Returns("get", get_result(Store, _is_compressed, _entry_value_map,
                                    Triple, row, col))

\* the object after T& operator()(row, col) threw std::invalid_argument
Throws(op) ==
  /\ ret' = Ret(op, <<>>, "invalid_argument")
  /\ UNCHANGED <<Store, build, observe, cap, _is_compressed, _entry_value_map,
                 _vec1, _vec2, _values, M, status>>

\* matrix(row, col) = v through T& operator()(row, col).  The model follows
\* the calls that leave at most cap keys in the map.
set(row, col, v) ==
  /\ status = "ok"
  /\ IF ~_is_compressed
     THEN /\ Cardinality(DOMAIN _entry_value_map \cup {<<row, col>>}) <= cap
          /\ _entry_value_map' = MapPut(_entry_value_map, <<row, col>>, v)
          /\ ret' = Ret("set", <<>>, "none")
          /\ M' = _entry_value_map'
          /\ UNCHANGED <<Store, build, observe, cap, _is_compressed, _vec1,
                         _vec2, _values, status>>
     ELSE IF ~InRange(Triple, Primary(Store, row, col))
     THEN Undefined
     ELSE LET p == ref_compressed(build, Store, Triple, row, col)
          IN  IF p = PastEnd THEN Undefined
              ELSE IF p = NotFound THEN Throws("set")
              ELSE /\ _values' = Put(_values, p, v)
                   /\ ret' = Ret("set", <<>>, "none")
                   /\ M' = EmptyMap
                   /\ UNCHANGED <<Store, build, observe, cap, _is_compressed,
                                  _entry_value_map, _vec1, _vec2, status>>

\* T val = matrix(row, col) on a non-const Matrix: T& operator()(row, col)
\* is called, and the map's operator[] inserts a zero for an absent key
read(row, col) ==
  /\ status = "ok"
  /\ IF ~_is_compressed
     THEN /\ Cardinality(DOMAIN _entry_value_map \cup {<<row, col>>}) <= cap
          /\ _entry_value_map' =
               IF <<row, col>> \in DOMAIN _entry_value_map
               THEN _entry_value_map
               ELSE MapPut(_entry_value_map, <<row, col>>, 0)
          /\ ret' = Ret("read", _entry_value_map'[<<row, col>>], "none")
          /\ M' = _entry_value_map'
          /\ UNCHANGED <<Store, build, observe, cap, _is_compressed, _vec1,
                         _vec2, _values, status>>
     ELSE IF ~InRange(Triple, Primary(Store, row, col))
     THEN Undefined
     ELSE LET p == ref_compressed(build, Store, Triple, row, col)
          IN  IF p = PastEnd THEN Undefined
              ELSE IF p = NotFound THEN Throws("read")
              ELSE /\ ret' = Ret("read", At(_values, p), "none")
                   /\ UNCHANGED <<Store, build, observe, cap, _is_compressed,
                                  _entry_value_map, _vec1, _vec2, _values, M,
                                  status>>

\* the values the uninitialised num_rows of _uncompressed_mult may hold
Garbage == 0..(MaxIdx + 1)

\* the results operator*(vec) can return: records [res, ub]
multiply_results(b, order, compressed, m, t, vec) ==
  IF ~compressed
  THEN IF b = "include" THEN {_matrix_vector_uncompressed(order, m, vec)}
       ELSE IF order = "row" THEN {_uncompressed_mult(order, m, vec, 0)}
       ELSE {[_uncompressed_mult(order, m, vec, g) EXCEPT !.ub = TRUE] :
               g \in Garbage}
  ELSE IF order = "row" THEN {_matrix_vector_row(t, vec)}
  ELSE {_matrix_vector_col(t, vec)}

\* the calls of operator* that dereference rbegin() or max_element() of an
\* empty container, or use _vec1.size() - 1 of an empty _vec1
multiply_empty(order, compressed, m, t) ==
  IF ~compressed THEN order = "row" /\ DOMAIN m = {}
  ELSE t.vec1 = <<>> \/ (order = "col" /\ t.vec2 = <<>>)

\* std::vector<T> operator*(std::vector<T> vec) const.  A result computed
\* with a write past the end of res, a read past the end of vec or an
\* uninitialised num_rows (ub) is returned, or the behaviour is undefined.
multiply(vec) ==
  /\ status = "ok"
  /\ IF multiply_empty(Store, _is_compressed, _entry_value_map, Triple)
     THEN Undefined
     ELSE \E r \in multiply_results(build, Store, _is_compressed,
                                    _entry_value_map, Triple, vec) :
            \/ Returns("multiply", r.res)
            \/ r.ub /\ Undefined

\* the calls of norm<Norm>() that dereference rbegin() or max_element() of an
\* empty container, or use _vec1.size() - 1 of an empty _vec1
norm_empty(Norm, order, compressed, m, t) ==
  IF Norm = "frob" THEN FALSE
  ELSE IF ~compressed THEN DOMAIN m = {}
  ELSE t.vec1 = <<>> \/ t.vec2 = <<>>

\* the result of norm<Norm>(): a record [res, ub]
norm_result(Norm, order, compressed, m, t) ==
  IF compressed THEN norm_compressed(Norm, order, t)
  ELSE norm_uncompressed(Norm, order, m)

\* template <NormOrder Norm> T norm() const
norm(Norm) ==
  /\ status = "ok"
  /\ IF norm_empty(Norm, Store, _is_compressed, _entry_value_map, Triple)
     THEN Undefined
     ELSE LET r == norm_result(Norm, Store, _is_compressed, _entry_value_map,
                               Triple)
          IN  \/ Returns(Norm, r.res)
              \/ r.ub /\ Undefined

\* bool is_compressed() const
is_compressed ==
  /\ status = "ok"
  /\ Returns("is_compressed", _is_compressed)

\* the argument vectors of operator*: one element per column index
XVals == {1, 2}

XVecs == [1..(MaxIdx + 1) -> XVals]

Next ==
  \/ compress
  \/ uncompress
  \/ \E row \in Idx, col \in Idx : get(row, col)
  \/ \E row \in Idx, col \in Idx, v \in Vals : set(row, col, v)
  \/ \E row \in Idx, col \in Idx : read(row, col)
  \/ \E vec \in XVecs : multiply(vec)
  \/ \E Norm \in NormOrder : norm(Norm)
  \/ is_compressed

\* the include revision
Spec == Init("include") /\ [][Next]_vars

\* the src revision
SpecSrc == Init("src") /\ [][Next]_vars

\* ------------------------------------------------------- the small example
\* the mapping of the small example: three entries of a 4 x 4 matrix
ScenarioMap == (<<0, 0>> :> 4) @@ (<<1, 2>> :> -17) @@ (<<3, 3>> :> 4)

ScenIdx == 0..3

ScenVals == {4, -17}

\* the vector of ones the example is multiplied by
Ones == [i \in 1..4 |-> 1]

\* the row-major Matrix over the small example, in either revision, with a
\* caller that looks at what each call returns and adds at most one key (as
\* test_basic_operations does with matrix(0, 3))
InitScenario ==
  /\ Store = "row"
  /\ build \in {"include", "src"}
  /\ observe = TRUE
  /\ cap = Cardinality(DOMAIN ScenarioMap) + 1
  /\ Constructed(ScenarioMap)

NextScenario ==
  \/ compress
  \/ uncompress
  \/ \E row \in ScenIdx, col \in ScenIdx : get(row, col)
  \/ \E row \in ScenIdx, col \in ScenIdx, v \in ScenVals : set(row, col, v)
  \/ \E row \in ScenIdx, col \in ScenIdx : read(row, col)
  \/ multiply(Ones)
  \/ \E Norm \in NormOrder : norm(Norm)
  \/ is_compressed

SpecScenario == InitScenario /\ [][NextScenario]_vars

\* ------------------------------------------------------------ properties
\* the primary index of a key in the storage order
PrimaryOf(order, k) == Primary(order, k[1], k[2])

\* the largest primary index of the keys of m
MaxPrimary(order, m) ==
  CHOOSE i \in {PrimaryOf(order, k) : k \in DOMAIN m} :
    \A k \in DOMAIN m : PrimaryOf(order, k) <= i

\* the number of keys of m in primary slot i
SlotCount(order, m, i) ==
  Cardinality({k \in DOMAIN m : PrimaryOf(order, k) = i})

\* the object holds the vectors compress() built from M, untouched since
CompressedFromM == status = "ok" /\ _is_compressed /\ M # EmptyMap

\* C9: after compress() of a non-empty mapping M, in either storage order,
\* indices and values have |M| elements, the last offset is |M|, offsets has
\* (largest primary index of M) + 2 elements and starts with 0.
C9_TripleSizes ==
  CompressedFromM =>
    /\ Len(_vec2) = Cardinality(DOMAIN M)
    /\ Len(_values) = Cardinality(DOMAIN M)
    /\ Len(_vec1) = MaxPrimary(Store, M) + 2
    /\ At(_vec1, Len(_vec1) - 1) = Cardinality(DOMAIN M)
    /\ At(_vec1, 0) = 0

\* a compressed object whose mapping has a primary slot without entries
\* below its largest one
C9_Witness ==
  /\ CompressedFromM
  /\ Cardinality(DOMAIN M) = MaxNnz
  /\ \E i \in 0..MaxPrimary(Store, M) : SlotCount(Store, M, i) = 0

\* C10: after the single-pass compress() of any mapping M, offsets never
\* decreases and offsets[i+1] - offsets[i] is the number of keys of M in
\* slot i, so that an empty slot repeats the previous offset.
C10_OffsetsCount ==
  CompressedFromM =>
    \A i \in 0..(Len(_vec1) - 2) :
      /\ At(_vec1, i) <= At(_vec1, i + 1)
      /\ At(_vec1, i + 1) - At(_vec1, i) = SlotCount(Store, M, i)

\* C1: compress() followed by uncompress() leaves a coordinate store with
\* the keys and values of the mapping M that was compressed, in both orders
\* and also when M has empty intermediate rows or columns.
C1_RoundTrip ==
  [][(CompressedFromM /\ uncompress) => _entry_value_map' = M]_vars

\* the keys (r, c) inside the index ranges of m
InRangeCoords(m) ==
  (0..MaxPrimary("row", m)) \X (0..MaxPrimary("col", m))

\* C2: for every (r, c) within the largest row and column index of M, the
\* const read returns after compress() what it returned before: the stored
\* value of a key of M, and 0 otherwise.
C2_GetModeInvariant ==
  CompressedFromM =>
    \A k \in InRangeCoords(M) :
      get_result(Store, TRUE, EmptyMap, Triple, k[1], k[2])
        = get_result(Store, FALSE, M, NoTriple, k[1], k[2])

\* the argument vectors whose length is the column count inferred from m
VecsFor(m) == [1..(MaxPrimary("col", m) + 1) -> XVals]

\* C3: for every vector of the inferred column count, operator* returns after
\* compress() a vector of the same length and with the same elements as
\* before compress().
C3_MultiplyModeInvariant ==
  CompressedFromM =>
    \A vec \in VecsFor(M) :
      \A a \in multiply_results(build, Store, FALSE, M, NoTriple, vec),
         b \in multiply_results(build, Store, TRUE, EmptyMap, Triple, vec) :
        /\ Len(a.res) = Len(b.res)
        /\ a.res = b.res

\* C4: the Frobenius norm (as the sum of squares), the one norm and the max
\* norm have the same value before and after compress().
C4_NormModeInvariant ==
  CompressedFromM =>
    \A Norm \in NormOrder :
      norm_result(Norm, Store, TRUE, EmptyMap, Triple).res
        = norm_result(Norm, Store, FALSE, M, NoTriple).res

\* the keys the three vectors hold: those uncompress() would restore
Pattern(order, t) == DOMAIN uncompress_dispatch(order, EmptyMap, t)

\* (row, col) lies within the index ranges of the stored keys, and is not
\* one of them
OutsidePattern(row, col) ==
  /\ status = "ok"
  /\ _is_compressed
  /\ Pattern(Store, Triple) # {}
  /\ <<row, col>> \notin Pattern(Store, Triple)
  /\ \E k \in Pattern(Store, Triple) : row <= k[1]
  /\ \E k \in Pattern(Store, Triple) : col <= k[2]

\* C5: on a compressed matrix, set(r, c) with (r, c) in range and not in the
\* stored pattern raises std::invalid_argument and leaves offsets, indices,
\* values and the mode flag as they were.
C5_SetOutsidePattern ==
  [][\A row \in Idx, col \in Idx, v \in Vals :
       (OutsidePattern(row, col) /\ set(row, col, v)) =>
         /\ ret'.err = "invalid_argument"
         /\ UNCHANGED <<_vec1, _vec2, _values, _is_compressed>>]_vars

\* the small example as constructed, before compress()
ScenUncompressed ==
  status = "ok" /\ ~_is_compressed /\ _entry_value_map = ScenarioMap

\* the small example after compress(), the vectors untouched since
ScenCompressed == CompressedFromM /\ M = ScenarioMap

ScenMultiplied ==
  /\ ret.op = "multiply"
  /\ ScenUncompressed \/ ScenCompressed

C8_ScenarioNorms ==
  (ret.op \in {"one", "max"} /\ (ScenUncompressed \/ ScenCompressed)) =>
    ret.val = 17

\* exactly one of the two stores holds data
OneLiveStore ==
  status = "ok" =>
    /\ _is_compressed => _entry_value_map = EmptyMap
    /\ ~_is_compressed => (_vec1 = <<>> /\ _vec2 = <<>> /\ _values = <<>>)

\* the flag follows the mode-changing calls, and only them
FlagFollowsMode ==
  /\ (compress /\ status' = "ok") => _is_compressed'
  /\ (uncompress /\ status' = "ok") => ~_is_compressed'
  /\ (_is_compressed' # _is_compressed) => (compress \/ uncompress)

\* C11: over any sequence of calls, is_compressed() is true exactly when the
\* last mode-changing call was compress(); while it is true the coordinate
\* store is empty, and while it is false offsets, indices and values are
\* empty.
C11_OneLiveStore == []OneLiveStore /\ [][FlagFollowsMode]_vars

\* a compressed object on which an assignment has been refused
C11_Witness ==
  /\ status = "ok"
  /\ _is_compressed
  /\ ret.err = "invalid_argument"
  /\ _entry_value_map = EmptyMap
  /\ Len(_values) = MaxNnz

\* the effect of operator[] on the map: key k present, holding x, the other
\* entries as before
OnlyKeyWritten(k, x) ==
  /\ DOMAIN _entry_value_map' = DOMAIN _entry_value_map \cup {k}
  /\ _entry_value_map'[k] = x
  /\ \A j \in DOMAIN _entry_value_map \ {k} :
       _entry_value_map'[j] = _entry_value_map[j]
  /\ ~_is_compressed'
  /\ status' = "ok"

\* C12: on an uncompressed matrix the call operator inserts (r, c) with 0 if
\* it is absent; after assigning v through it get(r, c) is v, every other
\* key keeps its value, no other key appears or disappears and the matrix
\* stays uncompressed.
C12_SetUncompressed ==
  [][\A row \in ScenIdx, col \in ScenIdx :
       /\ \A v \in ScenVals :
            (status = "ok" /\ ~_is_compressed /\ set(row, col, v)) =>
              /\ OnlyKeyWritten(<<row, col>>, v)
              /\ get_result(Store, _is_compressed', _entry_value_map',
                            Triple', row, col) = v
       /\ (status = "ok" /\ ~_is_compressed /\ read(row, col)) =>
            OnlyKeyWritten(<<row, col>>,
                           IF <<row, col>> \in DOMAIN _entry_value_map
                           THEN _entry_value_map[<<row, col>>] ELSE 0)]_vars

\* the key (0, 3), absent from the small example, has been assigned -17
C12_Witness ==
  /\ status = "ok"
  /\ ~_is_compressed
  /\ ret.op = "set"
  /\ DOMAIN _entry_value_map = DOMAIN ScenarioMap \cup {<<0, 3>>}
  /\ _entry_value_map[<<0, 3>>] = -17
  /\ \A k \in DOMAIN ScenarioMap : _entry_value_map[k] = ScenarioMap[k]

\* at most one element of _values differs after the step
OneValueWritten ==
  /\ Len(_values') = Len(_values)
  /\ \E p \in 1..Len(_values) :
       \A q \in 1..Len(_values) : q # p => _values'[q] = _values[q]

\* C13: on a compressed matrix of either order, set(r, c) = v with (r, c) in
\* the stored pattern raises no error, makes get(r, c) return v and leaves
\* offsets, indices, every other element of values and the mode flag
\* unchanged.
C13_SetInPattern ==
  [][\A row \in Idx, col \in Idx, v \in Vals :
       (/\ status = "ok"
        /\ _is_compressed
        /\ <<row, col>> \in Pattern(Store, Triple)
        /\ set(row, col, v)) =>
         /\ status' = "ok"
         /\ ret'.err = "none"
         /\ get_result(Store, _is_compressed', _entry_value_map', Triple',
                       row, col) = v
         /\ OneValueWritten
         /\ UNCHANGED <<_vec1, _vec2, _is_compressed>>]_vars

RECURSIVE SumOver(_, _)
SumOver(S, f) ==
  IF S = {} THEN 0
  ELSE LET k == CHOOSE j \in S : TRUE IN f[k] + SumOver(S \ {k}, f)

\* the keys of m in row r, in column c
RowKeys(m, r) == {k \in DOMAIN m : k[1] = r}

ColKeys(m, c) == {k \in DOMAIN m : k[2] = c}

\* y = m * vec: y[r] is the sum of m[r, c] * vec[c] over the keys of row r,
\* for r up to the largest row index of m
MatVec(m, vec) ==
  [i \in 1..(MaxPrimary("row", m) + 1) |->
     SumOver(RowKeys(m, i - 1), [k \in DOMAIN m |-> m[k] * At(vec, k[2])])]

\* the largest element of a non-empty set of numbers
SetMax(S) == CHOOSE x \in S : \A y \in S : y <= x

\* the largest absolute column sum of m
OneNormDef(m) ==
  SetMax({SumOver(ColKeys(m, c), [k \in DOMAIN m |-> Abs(m[k])]) :
            c \in 0..MaxPrimary("col", m)})

\* the largest absolute row sum of m
MaxNormDef(m) ==
  SetMax({SumOver(RowKeys(m, r), [k \in DOMAIN m |-> Abs(m[k])]) :
            r \in 0..MaxPrimary("row", m)})

\* the object holds a non-empty mapping, uncompressed
UncompressedNonEmpty ==
  status = "ok" /\ ~_is_compressed /\ _entry_value_map # EmptyMap

\* C15: for x of length (largest column index + 1), multiply(x) on the
\* uncompressed matrix over a non-empty mapping returns y of length (largest
\* row index + 1) with y[r] the sum of M[r,c] * x[c] over the keys of row r,
\* and every accumulation writes inside y.
C15_MultiplyUncompressedDef ==
  UncompressedNonEmpty =>
    \A vec \in VecsFor(_entry_value_map) :
      \A r \in multiply_results(build, Store, FALSE, _entry_value_map,
                                NoTriple, vec) :
        /\ ~r.ub
        /\ Len(r.res) = MaxPrimary("row", _entry_value_map) + 1
        /\ r.res = MatVec(_entry_value_map, vec)

\* C16: for x of length (largest column index + 1), multiply(x) on the
\* matrix compressed from M (CSR or CSC) returns y of length (largest row
\* index of M + 1) with y[r] the sum of M[r,c] * x[c] over the keys of row r.
C16_MultiplyCompressedDef ==
  CompressedFromM =>
    \A vec \in VecsFor(M) :
      \A r \in multiply_results(build, Store, TRUE, EmptyMap, Triple, vec) :
        /\ Len(r.res) = MaxPrimary("row", M) + 1
        /\ r.res = MatVec(M, vec)

\* the norm is computed without undefined behaviour and has the value x
NormIs(Norm, compressed, m, t, x) ==
  norm_result(Norm, Store, compressed, m, t) = [res |-> x, ub |-> FALSE]

\* C17: in each of the four paths (uncompressed row-major and column-major,
\* CSR, CSC) norm<One>() is the largest absolute column sum of M.
C17_OneNormDef ==
  /\ UncompressedNonEmpty =>
       NormIs("one", FALSE, _entry_value_map, NoTriple,
              OneNormDef(_entry_value_map))
  /\ CompressedFromM => NormIs("one", TRUE, EmptyMap, Triple, OneNormDef(M))

\* C18: in each of the four paths (uncompressed row-major and column-major,
\* CSR, CSC) norm<Max>() is the largest absolute row sum of M.
C18_MaxNormDef ==
  /\ UncompressedNonEmpty =>
       NormIs("max", FALSE, _entry_value_map, NoTriple,
              MaxNormDef(_entry_value_map))
  /\ CompressedFromM => NormIs("max", TRUE, EmptyMap, Triple, MaxNormDef(M))

\* --------------------------------------------- reads through the operator
\* the value the mapping m has at (row, col): absent keys are an implicit 0
ValueIn(m, row, col) ==
  IF <<row, col>> \in DOMAIN m THEN m[<<row, col>>] ELSE 0

\* how T val = matrix(row, col) ends in the current state: it returns a
\* value, throws std::invalid_argument, or has undefined behaviour
ReadKind(row, col) ==
  IF ~_is_compressed THEN "value"
  ELSE IF ~InRange(Triple, Primary(Store, row, col)) THEN "undefined"
  ELSE LET p == ref_compressed(build, Store, Triple, row, col)
       IN  IF p = PastEnd THEN "undefined"
           ELSE IF p = NotFound THEN "throws" ELSE "value"

\* how the call of the step ended
StepKind ==
  IF status' = "undefined" THEN "undefined"
  ELSE IF ret'.err = "invalid_argument" THEN "throws" ELSE "value"

\* the step is T val = matrix(row, col)
Reads(row, col) ==
  ret'.op = "read" /\ StepKind = ReadKind(row, col) /\ read(row, col)

\* T val = matrix(row, col) returned x without an error
ReadYields(x) ==
  status' = "ok" /\ ret'.err = "none" /\ ret'.val = x

\* C19: on a mutable matrix, matrix(r, c) at an in-range coordinate yields
\* the value of a key of M and 0 for a coordinate that is not a key, in
\* uncompressed mode and after compress(), without an error in either mode,
\* whether or not the coordinate was read before compress().
C19_ReadValueOrZero ==
  [][/\ UncompressedNonEmpty =>
          \A k \in InRangeCoords(_entry_value_map) :
            Reads(k[1], k[2]) =>
              ReadYields(ValueIn(_entry_value_map, k[1], k[2]))
     /\ CompressedFromM =>
          \A k \in InRangeCoords(M) :
            Reads(k[1], k[2]) => ReadYields(ValueIn(M, k[1], k[2]))]_vars

\* the triple a compress() called on the mapping m would build
CompressOf(m) ==
  compress_dispatch(build, Store, m, Triple, RBeginKey(Store, m))

\* C20: on an uncompressed matrix, reading matrix(r, c) at a coordinate that
\* is not a key of M leaves the set of keys as it is, so that a following
\* compress() builds values and indices of |M| elements and the triple that
\* compress() builds without the read.
C20_ReadKeepsPattern ==
  [][UncompressedNonEmpty =>
       \A row \in ScenIdx, col \in ScenIdx :
         (<<row, col>> \notin DOMAIN _entry_value_map /\ Reads(row, col)) =>
           /\ DOMAIN _entry_value_map' = DOMAIN _entry_value_map
           /\ Len(CompressOf(_entry_value_map').values)
                = Cardinality(DOMAIN _entry_value_map)
           /\ Len(CompressOf(_entry_value_map').vec2)
                = Cardinality(DOMAIN _entry_value_map)
           /\ CompressOf(_entry_value_map') = CompressOf(_entry_value_map)]_vars

\* ------------------------------------------------------ the const members
\* the step is a call of one of the const members by the caller of the small
\* example, who observes the call: ret' names the member that returned
ReadOnlyCall ==
  \/ ret'.op = "is_compressed" /\ is_compressed
  \/ ret'.op = "get" /\ \E row \in ScenIdx, col \in ScenIdx : get(row, col)
  \/ ret'.op = "multiply" /\ multiply(Ones)
  \/ ret'.op \in NormOrder /\ norm(ret'.op)

HeldKeys == DOMAIN _entry_value_map

\* the comparator of the object's storage order is irreflexive, and exactly
\* one of a < b, b < a, a = b holds: of every coordinate and every key held
StrictTotal ==
  \A a \in Coords, b \in HeldKeys :
    LET lt == Comparator(Store, a, b)
        gt == Comparator(Store, b, a)
    IN  /\ ~(lt /\ gt)
        /\ (a = b) <=> (~lt /\ ~gt)

\* the comparator of the object's storage order is transitive
Transitive ==
  \A a \in Coords, b \in HeldKeys, c \in HeldKeys :
    /\ (Comparator(Store, a, b) /\ Comparator(Store, b, c)) =>
         Comparator(Store, a, c)
    /\ (Comparator(Store, b, a) /\ Comparator(Store, a, c)) =>
         Comparator(Store, b, c)
    /\ (Comparator(Store, b, c) /\ Comparator(Store, c, a)) =>
         Comparator(Store, b, a)

\* the comparator orders by the primary index first, then by the secondary
PrimaryThenSecondary ==
  \A a \in Coords, b \in HeldKeys :
    LET p == PrimaryOf(Store, a)
        q == PrimaryOf(Store, b)
        sa == IF Store = "row" THEN a[2] ELSE a[1]
        sb == IF Store = "row" THEN b[2] ELSE b[1]
    IN  /\ Comparator(Store, a, b) <=> (p < q \/ (p = q /\ sa < sb))
        /\ Comparator(Store, b, a) <=> (q < p \/ (q = p /\ sb < sa))

\* the keys of the coordinate store in iteration order have non-decreasing
\* primary indices
IterationByPrimary ==
  LET keys == Ordered(Store, DOMAIN _entry_value_map)
  IN  \A i \in 1..Len(keys), j \in 1..Len(keys) :
        i < j => PrimaryOf(Store, keys[i]) <= PrimaryOf(Store, keys[j])

KeyOf(order, i, j) == IF order = "row" THEN <<i, j>> ELSE <<j, i>>

\* the secondary index of a key in the storage order
SecondaryOf(order, k) == IF order = "row" THEN k[2] ELSE k[1]

\* the positions offsets[i] .. offsets[i+1]-1 of slot i in the triple t
SlotRange(t, i) ==
  {k \in 0..(Len(t.vec2) - 1) : At(t.vec1, i) <= k /\ k < At(t.vec1, i + 1)}

\* slot i of the triple t holds the keys of m with primary index i, in
\* strictly increasing order of the secondary index, with their values
SlotHolds(order, m, t, i) ==
  /\ At(t.vec1, i + 1) <= Len(t.vec2)
  /\ \A k \in SlotRange(t, i) :
       (k + 1) \in SlotRange(t, i) => At(t.vec2, k) < At(t.vec2, k + 1)
  /\ {At(t.vec2, k) : k \in SlotRange(t, i)}
       = {SecondaryOf(order, key) :
            key \in {key \in DOMAIN m : PrimaryOf(order, key) = i}}
  /\ \A k \in SlotRange(t, i) :
       /\ KeyOf(order, i, At(t.vec2, k)) \in DOMAIN m
       /\ At(t.values, k) = m[KeyOf(order, i, At(t.vec2, k))]

\* C23: after compress() of a mapping M, in every primary slot i the
\* secondary indices indices[offsets[i] .. offsets[i+1]-1] are strictly
\* increasing, are those of the keys of M with primary index i, and
\* values[k] is the value of M at (slot, indices[k]).
C23_SlotOrder ==
  CompressedFromM =>
    \A i \in 0..(Len(_vec1) - 2) : SlotHolds(Store, M, Triple, i)

\* ------------------------------------------- switching into the current mode
\* compress() is called on a compressed matrix, or uncompress() on an
\* uncompressed one
SwitchIntoCurrentMode ==
  /\ status = "ok"
  /\ \/ _is_compressed /\ compress
     \/ ~_is_compressed /\ uncompress

\* C24: compress() on a matrix that is already compressed, and uncompress()
\* on a matrix that is already uncompressed, return and leave the mode flag,
\* the coordinate store and the three arrays as they were.
C24_SwitchIdempotent ==
  [][SwitchIntoCurrentMode =>
       /\ status' = "ok"
       /\ UNCHANGED <<_is_compressed, _entry_value_map, _vec1, _vec2,
                      _values>>]_vars

\* ------------------------------------------------ construction from arrays
\* the compressed-triple invariant: offsets start with 0, do not decrease
\* and end with the common length of indices and values
TripleInvariant(t) ==
  /\ Len(t.vec1) >= 1
  /\ At(t.vec1, 0) = 0
  /\ \A i \in 0..(Len(t.vec1) - 2) : At(t.vec1, i) <= At(t.vec1, i + 1)
  /\ At(t.vec1, Len(t.vec1) - 1) = Len(t.vec2)
  /\ Len(t.values) = Len(t.vec2)

\* no secondary index occurs twice in a slot
DistinctInSlot(t) ==
  \A i \in 0..(Len(t.vec1) - 2) :
    \A k \in SlotRange(t, i), l \in SlotRange(t, i) :
      At(t.vec2, k) = At(t.vec2, l) => k = l

\* the positions of the triple t with their keys
TripleKeys(order, t) ==
  {<<KeyOf(order, i, At(t.vec2, k)), k>> :
     i \in 0..(Len(t.vec1) - 2), k \in 0..(Len(t.vec2) - 1)}

\* the mapping {(i, indices[k]) -> values[k] : offsets[i] <= k < offsets[i+1]}
TripleMap(order, t) ==
  LET held == {p \in TripleKeys(order, t) :
                 p[2] \in SlotRange(t, PrimaryOf(order, p[1]))}
  IN  [key \in {p[1] : p \in held} |->
         At(t.values, CHOOSE k \in 0..(Len(t.vec2) - 1) : <<key, k>> \in held)]

\* the object is as Matrix(vec1, vec2, values) leaves it: compressed, with
\* arrays that satisfy the invariant and nothing known of a mapping
ArraysGiven ==
  /\ status # "undefined"
  /\ _is_compressed
  /\ M = EmptyMap
  /\ TripleInvariant(Triple)
  /\ DistinctInSlot(Triple)

\* C25: a Matrix constructed from three arrays (offsets, indices, values)
\* that satisfy the compressed-triple invariant reports is_compressed(),
\* answers get(r, c) from the arrays, and uncompress() yields the mapping
\* {(i, indices[k]) -> values[k] : offsets[i] <= k < offsets[i+1]}, primary
\* and secondary swapped for column-major.
C25_CompressedConstruction ==
  ArraysGiven =>
    /\ status = "ok"
    /\ \A row \in Idx, col \in Idx :
         InRange(Triple, Primary(Store, row, col)) =>
           get_result(Store, TRUE, EmptyMap, Triple, row, col)
             = ValueIn(TripleMap(Store, Triple), row, col)
    /\ Len(_vec1) > 0
    /\ uncompress_dispatch(Store, EmptyMap, Triple) = TripleMap(Store, Triple)

\* ------------------------------------------------------ reverse round trip
\* in every slot of the triple t the secondary indices strictly increase
IncreasingInSlot(t) ==
  \A i \in 0..(Len(t.vec1) - 2) :
    \A k \in SlotRange(t, i) :
      (k + 1) \in SlotRange(t, i) => At(t.vec2, k) < At(t.vec2, k + 1)

\* the last slot of the triple t is not empty
LastSlotNonEmpty(t) ==
  /\ Len(t.vec1) >= 2
  /\ At(t.vec1, Len(t.vec1) - 2) < At(t.vec1, Len(t.vec1) - 1)

\* the triple compress() builds after uncompress() has rebuilt the map from
\* the triple t and cleared the three vectors
Recompressed(t) ==
  LET m == uncompress_dispatch(Store, EmptyMap, t)
  IN  compress_dispatch(build, Store, m, NoTriple, RBeginKey(Store, m))

\* C26: for a compressed matrix whose triple satisfies the compressed-triple
\* invariant, has strictly increasing indices in each slot and a non-empty
\* last slot, uncompress() followed by compress() restores offsets, indices
\* and values, in both storage orders.
C26_ReverseRoundTrip ==
  (/\ status = "ok"
   /\ _is_compressed
   /\ TripleInvariant(Triple)
   /\ IncreasingInSlot(Triple)
   /\ LastSlotNonEmpty(Triple)) =>
    /\ ~Recompressed(Triple).oob
    /\ Recompressed(Triple).vec1 = _vec1
    /\ Recompressed(Triple).vec2 = _vec2
    /\ Recompressed(Triple).values = _values

\* ------------------------------------------- accumulators of the norms
\* the norm that walks the secondary indices of the object's storage order:
\* norm<One>() of a CSR matrix, norm<Max>() of a CSC matrix
AccumulatingNorm ==
  IF Store = "row" THEN _one_norm_compressed_row(Triple)
  ELSE _max_norm_compressed_col(Triple)

\* C27: in norm<One>() on a CSR matrix and norm<Max>() on a CSC matrix the
\* accumulator is sized so that every index stored in indices, the largest
\* one included, is a position of it: no accumulation writes outside the
\* array.
C27_AccumulatorBounds ==
  (status = "ok" /\ _is_compressed /\ _vec2 # <<>>) => ~AccumulatingNorm.ub

\* --------------------------------- column compression by range bounds
\* C28: in the lower_bound/upper_bound _compress_col every write
\* _inner[col + 1] targets a position below the length of _inner (largest
\* column index + 2), and the non-const column lookup scans the positions
\* offsets[col] .. offsets[col+1]-1 of the requested column, as the const
\* lookup does.
C28_ColumnRangeBounds ==
  (status = "ok" /\ build = "src" /\ Store = "col") =>
    /\ (~_is_compressed /\ _entry_value_map # EmptyMap) =>
         ~CompressOf(_entry_value_map).oob
    /\ _is_compressed =>
         \A row \in Idx, col \in Idx :
           InRange(Triple, col) =>
             find_pos_col_src(Triple, row, col) = find_pos_col(Triple, row, col)

\* ------------------------------------------------------ the all-zero matrix
\* the object holds the empty mapping, uncompressed
EmptyMatrix ==
  status = "ok" /\ ~_is_compressed /\ _entry_value_map = EmptyMap

\* C29: on a Matrix over the empty mapping, in either storage order,
\* compress(), multiply and the three norms complete: no last element of an
\* empty map is read, no maximum of an empty array is taken and
\* offsets.size() - 1 does not wrap; the norms return 0, and compress()
\* yields offsets = [0] with empty indices and values.
C29_AllZeroMatrix ==
  [][EmptyMatrix =>
       /\ compress =>
            /\ status' = "ok"
            /\ _is_compressed'
            /\ _vec1' = <<0>>
            /\ _vec2' = <<>>
            /\ _values' = <<>>
       /\ \A vec \in XVecs : multiply(vec) => status' = "ok"
       /\ \A Norm \in NormOrder :
            norm(Norm) =>
              /\ status' = "ok"
              /\ norm_result(Norm, Store, FALSE, EmptyMap, Triple).res = 0]_vars

====
